---- MODULE Spec2Model ----
(***************************************************************************)
(* Model of the chunked transcription pipeline of long_audio_transcriber:  *)
(* ChunkedAudioTranscriber.split_audio, transcribe_chunk,                  *)
(* merge_transcriptions and transcribe_long_audio.                         *)
(*                                                                         *)
(* Text is a sequence of one-character strings.  A path is a number: 0 is  *)
(* the source audio file, k >= 1 is temp_dir/chunk_00k.mp3.  A Python None *)
(* is NoneVal; a message is a tuple <<kind, chunk number>>.                *)
(***************************************************************************)
EXTENDS Integers, Sequences, FiniteSets, TLC

(* ------------------------------ bounds --------------------------------- *)
\* longest source, in whole minutes (one extra millisecond is also tried)
MaxMinutes == 1
\* longest text the remote service answers with, in a run
MaxRespLen == 1
\* longest transcript in a chunk-results list given to merge_transcriptions
MaxTextLen == 1
\* longest chunk-results list given to merge_transcriptions
MaxResults == 3
\* largest measured processing time of one chunk
MaxProcTime == 1
\* most results in a response of the speech-to-text service
MaxSpeechResults == 2

(* ----------------------------- constants ------------------------------- *)
MsPerMinute == 60 * 1000
NoneVal == <<"None">>
SourcePath == 0
Chars == {"a", "\n"}
NL == "\n"

(* ------------------------------- text ---------------------------------- *)
TextsUpTo(n) == UNION {[1..k -> Chars] : k \in 0..n}

IsSpace(c) == c \in {"\n", " "}

RECURSIVE LStrip(_)
LStrip(s) == IF s = <<>> THEN s
             ELSE IF IsSpace(Head(s)) THEN LStrip(Tail(s)) ELSE s

RECURSIVE RStrip(_)
RStrip(s) == IF s = <<>> THEN s
             ELSE IF IsSpace(s[Len(s)]) THEN RStrip(SubSeq(s, 1, Len(s) - 1)) ELSE s

\* str.strip()
Strip(s) == RStrip(LStrip(s))

\* len(str.split()): the number of maximal runs of non-whitespace
WordCount(s) ==
    Cardinality({k \in 1..Len(s) : ~IsSpace(s[k]) /\ (k = 1 \/ IsSpace(s[k - 1]))})

\* a mutant: the parts are joined by a single line break
RECURSIVE JoinSingleBreak(_, _)
JoinSingleBreak(parts, sep) ==
    IF parts = <<>> THEN <<>>
    ELSE IF Len(parts) = 1 THEN parts[1]
    ELSE parts[1] \o <<NL>> \o JoinSingleBreak(Tail(parts), sep)

\* sep.join(parts)
RECURSIVE Join(_, _)
Join(parts, sep) ==
    IF parts = <<>> THEN <<>>
    ELSE IF Len(parts) = 1 THEN parts[1]
    ELSE parts[1] \o sep \o Join(Tail(parts), sep)

\* str.replace(old, new): one left-to-right pass over non-overlapping matches
RECURSIVE Replace(_, _, _)
Replace(s, old, new) ==
    IF Len(s) < Len(old) THEN s
    ELSE IF SubSeq(s, 1, Len(old)) = old
         THEN new \o Replace(SubSeq(s, Len(old) + 1, Len(s)), old, new)
         ELSE <<Head(s)>> \o Replace(Tail(s), old, new)

\* dict.get(key, default)
Get(r, key, default) == IF key \in DOMAIN r THEN r[key] ELSE default

RECURSIVE SeqSum(_)
SeqSum(s) == IF s = <<>> THEN 0 ELSE Head(s) + SeqSum(Tail(s))

(* ------------------------ merge_transcriptions ------------------------- *)
\* a mutant: failed chunks are not filtered out
SuccessfulChunksUnfiltered(results) == results

SuccessfulChunks(results) == SelectSeq(results, LAMBDA r : r.success)

FailedChunks(results) == SelectSeq(results, LAMBDA r : ~r.success)

\* a mutant: the parts are joined last chunk first
TranscriptPartsReversed(successful) ==
    [k \in 1..Len(successful) |-> successful[Len(successful) + 1 - k].transcript]

TranscriptParts(successful) ==
    [k \in 1..Len(successful) |-> successful[k].transcript]

\* a mutant: the early return for zero successes is never taken
NoneSucceededNever(successful) == FALSE

\* if not successful_chunks
NoneSucceeded(successful) == successful = <<>>

merge_transcriptions(results) ==
    LET successful_chunks == SuccessfulChunks(results)
        failed_chunks == FailedChunks(results)
        full_transcript_parts == TranscriptParts(successful_chunks)
        total_words ==
            SeqSum([k \in 1..Len(successful_chunks) |->
                        Get(successful_chunks[k], "word_count", 0)])
        total_processing_time ==
            SeqSum([k \in 1..Len(successful_chunks) |->
                        Get(successful_chunks[k], "processing_time", 0)])
        full_transcript ==
            Replace(Join(full_transcript_parts, <<NL, NL>>), <<NL, NL, NL>>, <<NL, NL>>)
    IN  IF NoneSucceeded(successful_chunks)
        THEN [success |-> FALSE,
              error |-> <<"All chunks failed to transcribe">>,
              transcript |-> <<>>,
              chunk_results |-> results]
        ELSE [success |-> TRUE,
              error |-> NoneVal,
              transcript |-> full_transcript,
              total_chunks |-> Len(results),
              successful_chunks |-> Len(successful_chunks),
              failed_chunks |-> Len(failed_chunks),
              total_words |-> total_words,
              total_processing_time |-> total_processing_time,
              chunk_results |-> results]

(* ------------------------------- state --------------------------------- *)
VARIABLES
    google_key,             \* os.getenv('GOOGLE_API_KEY') is set
    chunk_duration_minutes, \* constructor argument (any integer is accepted)
    total_duration_ms,      \* len(audio) of the source
    source_exists,          \* os.path.exists(audio_file_path)
    input_is_wav,           \* Path(audio_file_path).suffix.lower() == '.wav'
    pc,                     \* position of the single thread of control
    split_chunks,           \* split_audio: its local list chunks of (path, start, end)
    chunks,                 \* transcribe_long_audio: the list split_audio returned
    chunk_start,            \* split_audio: loop variable
    chunk_number,           \* split_audio: loop variable
    temp_dir,               \* the temporary directory exists
    files,                  \* chunk files that exist in the temporary directory
    partial,                \* those of them whose export did not complete
    i,                      \* transcribe_long_audio: enumerate index
    chunk_results,          \* transcribe_long_audio: list of results
    audio_file,             \* transcribe_chunk: handle of the uploaded file
    remote,                 \* names of the files that exist on the remote side
    response,               \* transcribe_chunk: answer of generate_content
    exc,                    \* the exception in flight, NoneVal if none
    cleanup_j,              \* transcribe_long_audio: position of the cleanup loop
    cleanup_failed,         \* some os.remove / os.rmdir raised
    final_result,           \* the returned dict, NoneRec before the return
    calls,                  \* history: chunk indices transcribe_chunk was called with
    uploads,                \* history: chunk indices whose upload was started
    delays                  \* history: number of pacing delays slept

vars == <<google_key, chunk_duration_minutes, total_duration_ms, source_exists,
          input_is_wav, pc, split_chunks, chunks,
          chunk_start, chunk_number, temp_dir, files, partial, i, chunk_results,
          audio_file, remote, response, exc, cleanup_j, cleanup_failed,
          final_result, calls, uploads, delays>>

inputVars == <<google_key, chunk_duration_minutes, total_duration_ms, source_exists,
               input_is_wav>>
splitVars == <<split_chunks, chunks, chunk_start, chunk_number>>
fsVars == <<temp_dir, files, partial, cleanup_j, cleanup_failed>>
jobVars == <<audio_file, remote, response>>
histVars == <<calls, uploads, delays>>

chunk_duration_ms == chunk_duration_minutes * MsPerMinute

NoFile == [name |-> 0, state |-> "NONE"]
NoResponse == [kind |-> "none", text |-> <<>>]
NoneRec == [returned |-> FALSE]

Min(a, b) == IF a <= b THEN a ELSE b

\* the split loop of a non-positive chunk duration never ends: it is cut here,
\* above every chunk count a positive chunk duration produces
MaxSplitChunks == MaxMinutes + 2

Durations == {m * MsPerMinute + e : m \in 0..MaxMinutes, e \in {0, 1}}
ChunkMinutes == (-1)..MaxMinutes
\* <<chunk_duration_minutes, total_duration_ms>>: the small grid and the
\* 62-minute source cut in the default 25-minute chunks
Inputs == (ChunkMinutes \X Durations) \cup {<<25, 62 * MsPerMinute>>}

\* an answer that marks a long pause by two empty lines, as the prompt asks
LongPauseText == <<"a", NL, NL, NL, "a">>

RespTexts == TextsUpTo(MaxRespLen) \cup {LongPauseText}
ProcTimes == 1..MaxProcTime

Init ==
    /\ \E in \in Inputs :
          /\ chunk_duration_minutes = in[1]
          /\ total_duration_ms = in[2]
    /\ google_key \in BOOLEAN
    /\ source_exists \in BOOLEAN
    /\ input_is_wav = FALSE
    /\ pc = "init"
    /\ split_chunks = <<>>
    /\ chunks = <<>>
    /\ chunk_start = 0
    /\ chunk_number = 1
    /\ temp_dir = FALSE
    /\ files = {}
    /\ partial = {}
    /\ i = 0
    /\ chunk_results = <<>>
    /\ audio_file = NoFile
    /\ remote = {}
    /\ response = NoResponse
    /\ exc = NoneVal
    /\ cleanup_j = 1
    /\ cleanup_failed = FALSE
    /\ final_result = NoneRec
    /\ calls = <<>>
    /\ uploads = <<>>
    /\ delays = 0

(* ------------------------------ constructor --------------------------- *)
\* ChunkedAudioTranscriber(chunk_duration_minutes): without the key it raises
\* ValueError and there is no transcriber to call
Construct ==
    /\ pc = "init"
    /\ pc' = IF google_key THEN "start" ELSE "config_error"
    /\ UNCHANGED <<inputVars, splitVars, fsVars, i, chunk_results, jobVars, exc,
                   final_result, histVars>>

(* ------------------------------ split_audio ---------------------------- *)
\* a mutant: the source is not looked for before it is split
StartNoExistsCheck ==
    /\ pc = "start"
    /\ pc' = "split_load"
    /\ UNCHANGED <<inputVars, splitVars, fsVars, i, chunk_results, jobVars, exc,
                   final_result, histVars>>

\* transcribe_long_audio up to the call of split_audio
Start ==
    /\ pc = "start"
    /\ IF ~source_exists
       THEN /\ final_result' = [returned |-> TRUE,
                                success |-> FALSE,
                                error |-> <<"Audio file not found">>,
                                transcript |-> <<>>]
            /\ pc' = "done"
       ELSE /\ pc' = "split_load"
            /\ UNCHANGED final_result
    /\ UNCHANGED <<inputVars, splitVars, fsVars, i, chunk_results, jobVars, exc, histVars>>

\* a mutant: an audio exactly one chunk long is split as well
IsShortStrict == total_duration_ms < chunk_duration_ms

\* if total_duration_ms <= self.chunk_duration_ms
IsShort == total_duration_ms <= chunk_duration_ms

\* split_audio up to the loop: decode, the short-audio return, mkdtemp
SplitLoad ==
    /\ pc = "split_load"
    /\ \/ /\ exc' = <<"decode">>
          /\ pc' = "run_except"
          /\ UNCHANGED <<chunks, temp_dir>>
       \/ /\ IsShort
          /\ chunks' = <<[path |-> SourcePath, start |-> 0, end |-> total_duration_ms]>>
          /\ pc' = "loop"
          /\ UNCHANGED <<exc, temp_dir>>
       \/ /\ ~IsShort
          /\ temp_dir' = TRUE
          /\ pc' = "split_loop"
          /\ UNCHANGED <<exc, chunks>>
    /\ UNCHANGED <<inputVars, split_chunks, chunk_start, chunk_number, files, partial,
                   cleanup_j, cleanup_failed, i, chunk_results, jobVars, final_result,
                   histVars>>

\* a mutant: the window is not truncated to the remaining duration
ChunkEndUntruncated(start) == start + chunk_duration_ms

ChunkEnd(start) == Min(start + chunk_duration_ms, total_duration_ms)

\* a mutant: the loop stops before a final window shorter than one chunk
SplitContinuesFullOnly == chunk_start + chunk_duration_ms <= total_duration_ms

SplitContinues == chunk_start < total_duration_ms

\* a mutant: an export that raises is ignored and its chunk is kept
SplitStepSwallowExport ==
    /\ pc = "split_loop"
    /\ SplitContinues
    /\ Len(split_chunks) < MaxSplitChunks
    /\ LET chunk_end == ChunkEnd(chunk_start)
       IN /\ files' = files \cup {chunk_number}
          /\ partial' \in {partial, partial \cup {chunk_number}}
          /\ split_chunks' = Append(split_chunks, [path |-> chunk_number,
                                                   start |-> chunk_start,
                                                   end |-> chunk_end])
          /\ chunk_start' = chunk_end
          /\ chunk_number' = chunk_number + 1
          /\ UNCHANGED <<pc, exc>>
    /\ UNCHANGED <<inputVars, chunks, temp_dir, cleanup_j, cleanup_failed, i, chunk_results,
                   jobVars, final_result, histVars>>

\* one iteration of the while loop of split_audio
SplitStep ==
    /\ pc = "split_loop"
    /\ SplitContinues
    /\ Len(split_chunks) < MaxSplitChunks
    /\ LET chunk_end == ChunkEnd(chunk_start)
       IN \/ /\ files' = files \cup {chunk_number}
             /\ split_chunks' = Append(split_chunks, [path |-> chunk_number,
                                                      start |-> chunk_start,
                                                      end |-> chunk_end])
             /\ chunk_start' = chunk_end
             /\ chunk_number' = chunk_number + 1
             /\ UNCHANGED <<pc, exc, partial>>
          \/ \* export raises; the file may have been created already
             /\ \/ UNCHANGED <<files, partial>>
                \/ /\ files' = files \cup {chunk_number}
                   /\ partial' = partial \cup {chunk_number}
             /\ exc' = <<"export">>
             /\ pc' = "run_except"
             /\ UNCHANGED <<split_chunks, chunk_start, chunk_number>>
    /\ UNCHANGED <<inputVars, chunks, temp_dir, cleanup_j, cleanup_failed, i, chunk_results,
                   jobVars, final_result, histVars>>

\* the loop of split_audio ends and the chunks are returned
SplitReturn ==
    /\ pc = "split_loop"
    /\ ~SplitContinues
    /\ chunks' = split_chunks
    /\ pc' = "loop"
    /\ UNCHANGED <<inputVars, split_chunks, chunk_start, chunk_number, fsVars, i, chunk_results, jobVars, exc,
                   final_result, histVars>>

(* ---------------------------- transcribe_chunk ------------------------- *)
FailedStateResult(idx, c) ==
    [success |-> FALSE,
     error |-> <<"processing failed", idx + 1>>,
     transcript |-> <<>>,
     start_time |-> c.start,
     end_time |-> c.end]

SuccessResult(idx, c, text, t) ==
    [success |-> TRUE,
     error |-> NoneVal,
     transcript |-> Strip(text),
     start_time |-> c.start,
     end_time |-> c.end,
     processing_time |-> t,
     word_count |-> WordCount(Strip(text))]

\* a mutant: the failure for an empty answer carries no error
EmptyResultNoError(idx, c, t) ==
    [success |-> FALSE,
     error |-> NoneVal,
     transcript |-> <<>>,
     start_time |-> c.start,
     end_time |-> c.end,
     processing_time |-> t]

EmptyResult(idx, c, t) ==
    [success |-> FALSE,
     error |-> <<"No transcription generated", idx + 1>>,
     transcript |-> <<>>,
     start_time |-> c.start,
     end_time |-> c.end,
     processing_time |-> t]

ExceptResult(idx, c, e) ==
    [success |-> FALSE,
     error |-> <<"error", idx + 1>> \o e,
     transcript |-> <<>>,
     start_time |-> c.start,
     end_time |-> c.end,
     processing_time |-> 0]

\* a mutant: the pacing delay follows the last chunk as well
ReturnToLoopAlwaysDelay(result) ==
    /\ chunk_results' = Append(chunk_results, result)
    /\ audio_file' = NoFile
    /\ response' = NoResponse
    /\ pc' = "delay" /\ i' = i

\* transcribe_chunk returns result: the loop of transcribe_long_audio appends it
\* and goes to the pacing delay, or to the next iteration after the last chunk
ReturnToLoop(result) ==
    /\ chunk_results' = Append(chunk_results, result)
    /\ audio_file' = NoFile
    /\ response' = NoResponse
    /\ IF i < Len(chunks) - 1
       THEN pc' = "delay" /\ i' = i
       ELSE pc' = "loop" /\ i' = i + 1

\* a mutant: the statement that raises stands outside the try block
RaiseInChunkUncaught(e) ==
    /\ exc' = e
    /\ pc' = "run_except"

\* the exception e is raised inside the try block of transcribe_chunk
RaiseInChunk(e) ==
    /\ exc' = e
    /\ pc' = "chunk_except"

\* the for loop of transcribe_long_audio calls transcribe_chunk
LoopCall ==
    /\ pc = "loop"
    /\ i < Len(chunks)
    /\ calls' = Append(calls, i)
    /\ pc' = "upload"
    /\ UNCHANGED <<inputVars, splitVars, fsVars, i, chunk_results, jobVars, exc,
                   final_result, uploads, delays>>

\* genai.upload_file
Upload ==
    /\ pc = "upload"
    /\ uploads' = Append(uploads, i)
    /\ \/ /\ RaiseInChunk(<<"upload">>)
          /\ UNCHANGED <<audio_file, remote>>
       \/ /\ \E st \in {"PROCESSING", "ACTIVE", "FAILED"} :
                audio_file' = [name |-> i + 1, state |-> st]
          /\ remote' = remote \cup {i + 1}
          /\ pc' = "poll"
          /\ UNCHANGED exc
    /\ UNCHANGED <<inputVars, splitVars, fsVars, i, chunk_results, response,
                   final_result, calls, delays>>

\* the test of the while loop found PROCESSING: time.sleep(5)
PollSleep ==
    /\ pc = "poll"
    /\ audio_file.state = "PROCESSING"
    /\ pc' = "get_file"
    /\ UNCHANGED <<inputVars, splitVars, fsVars, i, chunk_results, jobVars, exc,
                   final_result, histVars>>

\* genai.get_file
GetFile ==
    /\ pc = "get_file"
    /\ \/ /\ RaiseInChunk(<<"poll">>)
          /\ UNCHANGED audio_file
       \/ /\ \E st \in {"PROCESSING", "ACTIVE", "FAILED"} :
                audio_file' = [audio_file EXCEPT !.state = st]
          /\ pc' = "poll"
          /\ UNCHANGED exc
    /\ UNCHANGED <<inputVars, splitVars, fsVars, i, chunk_results, remote, response,
                   final_result, histVars>>

\* the while loop is left: the FAILED state returns a failure
CheckState ==
    /\ pc = "poll"
    /\ audio_file.state # "PROCESSING"
    /\ IF audio_file.state = "FAILED"
       THEN ReturnToLoop(FailedStateResult(i, chunks[i + 1]))
       ELSE /\ pc' = "generate"
            /\ UNCHANGED <<i, chunk_results, audio_file, response>>
    /\ UNCHANGED <<inputVars, splitVars, fsVars, remote, exc, final_result, histVars>>

\* self.model.generate_content
Generate ==
    /\ pc = "generate"
    /\ \/ /\ RaiseInChunk(<<"generate">>)
          /\ UNCHANGED response
       \/ /\ \/ \E t \in RespTexts : response' = [kind |-> "text", text |-> t]
             \/ response' = [kind |-> "blocked", text |-> <<>>]
          /\ pc' = "delete"
          /\ UNCHANGED exc
    /\ UNCHANGED <<inputVars, splitVars, fsVars, i, chunk_results, audio_file, remote,
                   final_result, histVars>>

\* genai.delete_file
DeleteFile ==
    /\ pc = "delete"
    /\ \/ /\ RaiseInChunk(<<"delete">>)
          /\ UNCHANGED remote
       \/ /\ remote' = remote \ {audio_file.name}
          /\ pc' = "result"
          /\ UNCHANGED exc
    /\ UNCHANGED <<inputVars, splitVars, fsVars, i, chunk_results, audio_file, response,
                   final_result, histVars>>

\* chunk_time is measured and response.text is read (it raises on a blocked answer)
BuildResult ==
    /\ pc = "result"
    /\ \E t \in ProcTimes :
          IF response.kind = "blocked"
          THEN /\ RaiseInChunk(<<"text">>)
               /\ UNCHANGED <<i, chunk_results, audio_file, response>>
          ELSE /\ IF response.text # <<>>
                  THEN ReturnToLoop(SuccessResult(i, chunks[i + 1], response.text, t))
                  ELSE ReturnToLoop(EmptyResult(i, chunks[i + 1], t))
               /\ UNCHANGED exc
    /\ UNCHANGED <<inputVars, splitVars, fsVars, remote, final_result, histVars>>

\* a mutant: the handler lets the exception out of transcribe_chunk
ChunkExceptReraise ==
    /\ pc = "chunk_except"
    /\ pc' = "run_except"
    /\ UNCHANGED <<inputVars, splitVars, fsVars, i, chunk_results, jobVars, exc,
                   final_result, histVars>>

\* except Exception of transcribe_chunk
ChunkExcept ==
    /\ pc = "chunk_except"
    /\ ReturnToLoop(ExceptResult(i, chunks[i + 1], exc))
    /\ exc' = NoneVal
    /\ UNCHANGED <<inputVars, splitVars, fsVars, remote, final_result, histVars>>

(* -------------------------- transcribe_long_audio ---------------------- *)
\* a mutant: the next iteration takes the same chunk again
DelayRepeat ==
    /\ pc = "delay"
    /\ delays' = delays + 1
    /\ i' = i
    /\ pc' = "loop"
    /\ UNCHANGED <<inputVars, splitVars, fsVars, chunk_results, jobVars, exc,
                   final_result, calls, uploads>>

\* time.sleep(2) between two chunks, then the next iteration
Delay ==
    /\ pc = "delay"
    /\ delays' = delays + 1
    /\ i' = i + 1
    /\ pc' = "loop"
    /\ UNCHANGED <<inputVars, splitVars, fsVars, chunk_results, jobVars, exc,
                   final_result, calls, uploads>>

\* the for loop over the chunks is exhausted
LoopEnd ==
    /\ pc = "loop"
    /\ i >= Len(chunks)
    /\ pc' = "cleanup"
    /\ cleanup_j' = 1
    /\ UNCHANGED <<inputVars, splitVars, temp_dir, files, partial, cleanup_failed, i,
                   chunk_results, jobVars, exc, final_result, histVars>>

\* os.path.exists(path)
Exists(path) == IF path = SourcePath THEN source_exists ELSE path \in files

\* a mutant: the path of the source is not told from the chunk paths
IsOriginalNever(chunk_path) == FALSE

\* not (chunk_path != audio_file_path)
IsOriginal(chunk_path) == chunk_path = SourcePath

\* a mutant: what a removal raises leaves the cleanup loop
CleanupErrorRaised ==
    /\ cleanup_failed' = TRUE
    /\ exc' = <<"cleanup">>
    /\ pc' = "run_except"

\* except: pass
IgnoreCleanupError ==
    /\ cleanup_failed' = TRUE
    /\ UNCHANGED <<pc, exc>>

\* a mutant: the chunk file is removed, the emptied directory is left behind
CleanupStepNoRmdir ==
    /\ pc = "cleanup"
    /\ cleanup_j <= Len(chunks)
    /\ cleanup_j' = cleanup_j + 1
    /\ LET chunk_path == chunks[cleanup_j].path
       IN IF IsOriginal(chunk_path)
          THEN UNCHANGED <<source_exists, temp_dir, files, partial, cleanup_failed, pc, exc>>
          ELSE \/ /\ IgnoreCleanupError
                  /\ UNCHANGED <<source_exists, temp_dir, files, partial>>
               \/ /\ Exists(chunk_path)
                  /\ source_exists' = (source_exists /\ chunk_path # SourcePath)
                  /\ files' = files \ {chunk_path}
                  /\ partial' = partial \ {chunk_path}
                  /\ UNCHANGED <<temp_dir, cleanup_failed, pc, exc>>
    /\ UNCHANGED <<google_key, chunk_duration_minutes, total_duration_ms, input_is_wav, splitVars, i,
                   chunk_results, jobVars, final_result, histVars>>

\* one iteration of the cleanup loop: os.remove, then os.rmdir of an empty
\* directory; whatever is raised is swallowed
CleanupStep ==
    /\ pc = "cleanup"
    /\ cleanup_j <= Len(chunks)
    /\ cleanup_j' = cleanup_j + 1
    /\ LET chunk_path == chunks[cleanup_j].path
       IN IF IsOriginal(chunk_path)
          THEN UNCHANGED <<source_exists, temp_dir, files, partial, cleanup_failed, pc, exc>>
          ELSE \/ \* os.remove raises: the file is missing, or it cannot be removed
                  /\ IgnoreCleanupError
                  /\ UNCHANGED <<source_exists, temp_dir, files, partial>>
               \/ /\ Exists(chunk_path)
                  /\ source_exists' = (source_exists /\ chunk_path # SourcePath)
                  /\ files' = files \ {chunk_path}
                  /\ partial' = partial \ {chunk_path}
                  /\ IF chunk_path # SourcePath /\ temp_dir /\ files' = {}
                     THEN \/ temp_dir' = FALSE /\ UNCHANGED <<cleanup_failed, pc, exc>>
                          \/ \* os.rmdir raises
                             IgnoreCleanupError /\ UNCHANGED temp_dir
                     ELSE UNCHANGED <<temp_dir, cleanup_failed, pc, exc>>
    /\ UNCHANGED <<google_key, chunk_duration_minutes, total_duration_ms, input_is_wav, splitVars, i,
                   chunk_results, jobVars, final_result, histVars>>

PacingDelay == 2

\* time.time() - overall_start_time, as far as the model measures time
Elapsed ==
    SeqSum([k \in 1..Len(chunk_results) |-> Get(chunk_results[k], "processing_time", 0)])
        + PacingDelay * delays

\* merge_transcriptions is called and its result returned
MergeAndReturn ==
    /\ pc = "cleanup"
    /\ cleanup_j > Len(chunks)
    /\ final_result' =
          [k \in DOMAIN merge_transcriptions(chunk_results)
                    \cup {"returned", "total_processing_time"} |->
              IF k = "returned" THEN TRUE
              ELSE IF k = "total_processing_time" THEN Elapsed
              ELSE merge_transcriptions(chunk_results)[k]]
    /\ pc' = "done"
    /\ UNCHANGED <<inputVars, splitVars, fsVars, i, chunk_results, jobVars, exc, histVars>>

\* except Exception of transcribe_long_audio
RunExcept ==
    /\ pc = "run_except"
    /\ final_result' = [returned |-> TRUE,
                        success |-> FALSE,
                        error |-> <<"Overall transcription error">> \o exc,
                        transcript |-> <<>>,
                        total_processing_time |-> Elapsed]
    /\ pc' = "done"
    /\ UNCHANGED <<inputVars, splitVars, fsVars, i, chunk_results, jobVars, exc, histVars>>

Next ==
    \/ Construct
    \/ Start
    \/ SplitLoad
    \/ SplitStep
    \/ SplitReturn
    \/ LoopCall
    \/ Upload
    \/ PollSleep
    \/ GetFile
    \/ CheckState
    \/ Generate
    \/ DeleteFile
    \/ BuildResult
    \/ ChunkExcept
    \/ Delay
    \/ LoopEnd
    \/ CleanupStep
    \/ MergeAndReturn
    \/ RunExcept

Spec == Init /\ [][Next]_vars

\* the thread of control always takes its next step; the remote service and
\* the file system answer as they like
FairSpec == Spec /\ WF_vars(Next)

(* --------------------- the cleanup loop, run once more ------------------ *)
\* the cleanup loop of transcribe_long_audio is entered again after the return
\* of a run that left no chunk file and no temporary directory
CleanupAgain ==
    /\ pc = "done"
    /\ "chunk_results" \in DOMAIN final_result
    /\ files = {}
    /\ ~temp_dir
    /\ pc' = "cleanup"
    /\ cleanup_j' = 1
    /\ UNCHANGED <<inputVars, splitVars, temp_dir, files, partial, cleanup_failed, i,
                   chunk_results, jobVars, exc, final_result, histVars>>

NextCleanup ==
    \/ Next
    \/ CleanupAgain

SpecCleanup == Init /\ [][NextCleanup]_vars

(* --------------- debug_transcriber.test_small_transcription ------------- *)
\* "temp_test_chunk.mp3", as a path
temp_file == 1

\* what test_small_transcription never touches
debugFrame == <<inputVars, splitVars, temp_dir, cleanup_j, i, chunk_results, histVars>>

\* return value
Returned(value) == [returned |-> TRUE, value |-> value]

InitDebug ==
    /\ google_key \in BOOLEAN
    /\ chunk_duration_minutes = 1
    /\ total_duration_ms \in Durations
    /\ source_exists \in BOOLEAN
    /\ input_is_wav = FALSE
    /\ pc = "small_load"
    /\ split_chunks = <<>>
    /\ chunks = <<>>
    /\ chunk_start = 0
    /\ chunk_number = 1
    /\ temp_dir = FALSE
    /\ files = {}
    /\ partial = {}
    /\ i = 0
    /\ chunk_results = <<>>
    /\ audio_file = NoFile
    /\ remote = {}
    /\ response = NoResponse
    /\ exc = NoneVal
    /\ cleanup_j = 1
    /\ cleanup_failed = FALSE
    /\ final_result = NoneRec
    /\ calls = <<>>
    /\ uploads = <<>>
    /\ delays = 0

\* the exception e is raised inside the try block of test_small_transcription
RaiseInSmall(e) ==
    /\ exc' = e
    /\ pc' = "small_except"

\* AudioSegment.from_file(audio_path) and audio[:30000]
SmallLoad ==
    /\ pc = "small_load"
    /\ \/ RaiseInSmall(<<"decode">>)
       \/ /\ source_exists
          /\ pc' = "small_export"
          /\ UNCHANGED exc
    /\ UNCHANGED <<debugFrame, files, partial, jobVars, cleanup_failed, final_result>>

\* small_chunk.export(temp_file, format="mp3")
SmallExport ==
    /\ pc = "small_export"
    /\ \/ /\ files' = files \cup {temp_file}
          /\ pc' = "small_upload"
          /\ UNCHANGED <<partial, exc>>
       \/ \* export raises; the file may have been created already
          /\ \/ UNCHANGED <<files, partial>>
             \/ /\ files' = files \cup {temp_file}
                /\ partial' = partial \cup {temp_file}
          /\ RaiseInSmall(<<"export">>)
    /\ UNCHANGED <<debugFrame, jobVars, cleanup_failed, final_result>>

\* genai.configure and genai.upload_file(path=temp_file)
SmallUpload ==
    /\ pc = "small_upload"
    /\ \/ /\ RaiseInSmall(<<"upload">>)
          /\ UNCHANGED <<audio_file, remote>>
       \/ /\ \E st \in {"PROCESSING", "ACTIVE", "FAILED"} :
                audio_file' = [name |-> 1, state |-> st]
          /\ remote' = remote \cup {1}
          /\ pc' = "small_poll"
          /\ UNCHANGED exc
    /\ UNCHANGED <<debugFrame, files, partial, response, cleanup_failed, final_result>>

\* the test of the while loop found PROCESSING: time.sleep(2)
SmallPollSleep ==
    /\ pc = "small_poll"
    /\ audio_file.state = "PROCESSING"
    /\ pc' = "small_get_file"
    /\ UNCHANGED <<debugFrame, files, partial, jobVars, exc, cleanup_failed, final_result>>

\* genai.get_file
SmallGetFile ==
    /\ pc = "small_get_file"
    /\ \/ /\ RaiseInSmall(<<"poll">>)
          /\ UNCHANGED audio_file
       \/ /\ \E st \in {"PROCESSING", "ACTIVE", "FAILED"} :
                audio_file' = [audio_file EXCEPT !.state = st]
          /\ pc' = "small_poll"
          /\ UNCHANGED exc
    /\ UNCHANGED <<debugFrame, files, partial, remote, response, cleanup_failed,
                   final_result>>

\* the while loop is left: the FAILED state returns False
SmallCheckState ==
    /\ pc = "small_poll"
    /\ audio_file.state # "PROCESSING"
    /\ IF audio_file.state = "FAILED"
       THEN /\ final_result' = Returned(FALSE)
            /\ pc' = "small_done"
       ELSE /\ pc' = "small_generate"
            /\ UNCHANGED final_result
    /\ UNCHANGED <<debugFrame, files, partial, jobVars, exc, cleanup_failed>>

\* model.generate_content([prompt, audio_file])
SmallGenerate ==
    /\ pc = "small_generate"
    /\ \/ /\ RaiseInSmall(<<"generate">>)
          /\ UNCHANGED response
       \/ /\ \/ \E t \in RespTexts : response' = [kind |-> "text", text |-> t]
             \/ response' = [kind |-> "blocked", text |-> <<>>]
          /\ pc' = "small_delete"
          /\ UNCHANGED exc
    /\ UNCHANGED <<debugFrame, files, partial, audio_file, remote, cleanup_failed,
                   final_result>>

\* genai.delete_file(audio_file.name) after the answer
SmallDeleteFile ==
    /\ pc = "small_delete"
    /\ \/ /\ RaiseInSmall(<<"delete">>)
          /\ cleanup_failed' = TRUE
          /\ UNCHANGED remote
       \/ /\ remote' = remote \ {audio_file.name}
          /\ pc' = "small_remove"
          /\ UNCHANGED <<exc, cleanup_failed>>
    /\ UNCHANGED <<debugFrame, files, partial, audio_file, response, final_result>>

\* os.remove(temp_file) after the answer
SmallRemove ==
    /\ pc = "small_remove"
    /\ \/ /\ RaiseInSmall(<<"remove">>)
          /\ cleanup_failed' = TRUE
          /\ UNCHANGED <<files, partial>>
       \/ /\ temp_file \in files
          /\ files' = files \ {temp_file}
          /\ partial' = partial \ {temp_file}
          /\ pc' = "small_result"
          /\ UNCHANGED <<exc, cleanup_failed>>
    /\ UNCHANGED <<debugFrame, jobVars, final_result>>

\* if response.text (it raises on a blocked answer)
SmallResult ==
    /\ pc = "small_result"
    /\ IF response.kind = "blocked"
       THEN /\ RaiseInSmall(<<"text">>)
            /\ UNCHANGED final_result
       ELSE /\ final_result' = Returned(response.text # <<>>)
            /\ pc' = "small_done"
            /\ UNCHANGED exc
    /\ UNCHANGED <<debugFrame, files, partial, jobVars, cleanup_failed>>

\* except Exception: delete_file if audio_file is bound, then os.remove if the
\* file exists; what the first raises skips the second; return False
SmallExcept ==
    /\ pc = "small_except"
    /\ \/ \* audio_file is not bound, or delete_file returns
          /\ \/ audio_file = NoFile /\ UNCHANGED remote
             \/ audio_file # NoFile /\ remote' = remote \ {audio_file.name}
          /\ \/ /\ temp_file \in files
                /\ files' = files \ {temp_file}
                /\ partial' = partial \ {temp_file}
                /\ UNCHANGED cleanup_failed
             \/ \* os.remove raises
                /\ temp_file \in files
                /\ cleanup_failed' = TRUE
                /\ UNCHANGED <<files, partial>>
             \/ /\ temp_file \notin files
                /\ UNCHANGED <<files, partial, cleanup_failed>>
       \/ \* delete_file raises
          /\ audio_file # NoFile
          /\ cleanup_failed' = TRUE
          /\ UNCHANGED <<remote, files, partial>>
    /\ final_result' = Returned(FALSE)
    /\ pc' = "small_done"
    /\ UNCHANGED <<debugFrame, audio_file, response, exc>>

NextDebug ==
    \/ SmallLoad
    \/ SmallExport
    \/ SmallUpload
    \/ SmallPollSleep
    \/ SmallGetFile
    \/ SmallCheckState
    \/ SmallGenerate
    \/ SmallDeleteFile
    \/ SmallRemove
    \/ SmallResult
    \/ SmallExcept

SpecDebug == InitDebug /\ [][NextDebug]_vars

(* ------- speech_to_text_alternative.SpeechToTextTranscriber ------------- *)
\* str(audio_path.with_suffix('.wav')), as a path
ConvertedPath == 1

\* the value convert_to_wav returns
wav_path == IF input_is_wav THEN SourcePath ELSE ConvertedPath

\* what transcribe_long_audio of SpeechToTextTranscriber never touches
speechFrame ==
    <<inputVars, splitVars, temp_dir, cleanup_j, i, chunk_results, audio_file, remote,
      histVars>>

\* response.results: the transcript of alternatives[0] of each result, NoneVal
\* for a result without alternatives
SpeechResults ==
    UNION {[1..n -> TextsUpTo(MaxRespLen) \cup {NoneVal}] : n \in 0..MaxSpeechResults}

InitSpeech ==
    /\ google_key = TRUE
    /\ chunk_duration_minutes = 1
    /\ total_duration_ms \in Durations
    /\ source_exists \in BOOLEAN
    /\ input_is_wav \in BOOLEAN
    /\ pc = "speech_convert"
    /\ split_chunks = <<>>
    /\ chunks = <<>>
    /\ chunk_start = 0
    /\ chunk_number = 1
    /\ temp_dir = FALSE
    /\ files = {}
    /\ partial = {}
    /\ i = 0
    /\ chunk_results = <<>>
    /\ audio_file = NoFile
    /\ remote = {}
    /\ response = NoResponse
    /\ exc = NoneVal
    /\ cleanup_j = 1
    /\ cleanup_failed = FALSE
    /\ final_result = NoneRec
    /\ calls = <<>>
    /\ uploads = <<>>
    /\ delays = 0

\* the exception e is raised inside the try block of transcribe_long_audio
RaiseInSpeech(e) ==
    /\ exc' = e
    /\ pc' = "speech_except"

\* convert_to_wav: a .wav input is returned as it is, any other is decoded and
\* exported next to the input
convert_to_wav ==
    /\ pc = "speech_convert"
    /\ \/ /\ input_is_wav
          /\ pc' = "speech_read"
          /\ UNCHANGED <<files, partial, exc>>
       \/ /\ ~input_is_wav
          /\ RaiseInSpeech(<<"decode">>)
          /\ UNCHANGED <<files, partial>>
       \/ /\ ~input_is_wav
          /\ source_exists
          /\ \/ /\ files' = files \cup {ConvertedPath}
                /\ pc' = "speech_read"
                /\ UNCHANGED <<partial, exc>>
             \/ \* export raises; the file may have been created already
                /\ \/ UNCHANGED <<files, partial>>
                   \/ /\ files' = files \cup {ConvertedPath}
                      /\ partial' = partial \cup {ConvertedPath}
                /\ RaiseInSpeech(<<"export">>)
    /\ UNCHANGED <<speechFrame, response, cleanup_failed, final_result>>

\* os.path.getsize(wav_path) and the read of the file
SpeechRead ==
    /\ pc = "speech_read"
    /\ \/ RaiseInSpeech(<<"read">>)
       \/ /\ Exists(wav_path)
          /\ pc' = "speech_recognize"
          /\ UNCHANGED exc
    /\ UNCHANGED <<speechFrame, files, partial, response, cleanup_failed, final_result>>

\* self.client.long_running_recognize
SpeechRecognize ==
    /\ pc = "speech_recognize"
    /\ \/ RaiseInSpeech(<<"recognize">>)
       \/ /\ pc' = "speech_wait"
          /\ UNCHANGED exc
    /\ UNCHANGED <<speechFrame, files, partial, response, cleanup_failed, final_result>>

\* operation.result(timeout=1800)
SpeechWait ==
    /\ pc = "speech_wait"
    /\ \/ /\ RaiseInSpeech(<<"timeout">>)
          /\ UNCHANGED response
       \/ /\ \E rs \in SpeechResults : response' = [kind |-> "results", results |-> rs]
          /\ pc' = "speech_process"
          /\ UNCHANGED exc
    /\ UNCHANGED <<speechFrame, files, partial, cleanup_failed, final_result>>

\* the loop over response.results: alternatives[0] of an empty list raises
SpeechProcess ==
    /\ pc = "speech_process"
    /\ IF \E k \in 1..Len(response.results) : response.results[k] = NoneVal
       THEN RaiseInSpeech(<<"index">>)
       ELSE /\ pc' = "speech_cleanup"
            /\ UNCHANGED exc
    /\ UNCHANGED <<speechFrame, files, partial, response, cleanup_failed, final_result>>

\* if wav_path != audio_file_path: os.remove(wav_path), errors ignored
SpeechCleanup ==
    /\ pc = "speech_cleanup"
    /\ IF wav_path # SourcePath
       THEN \/ /\ Exists(wav_path)
               /\ files' = files \ {wav_path}
               /\ partial' = partial \ {wav_path}
               /\ UNCHANGED cleanup_failed
            \/ \* os.remove raises
               /\ cleanup_failed' = TRUE
               /\ UNCHANGED <<files, partial>>
       ELSE UNCHANGED <<files, partial, cleanup_failed>>
    /\ pc' = "speech_return"
    /\ UNCHANGED <<speechFrame, response, exc, final_result>>

\* the success dict (confidence, speaker_segments and language_code left out)
SpeechReturn ==
    /\ pc = "speech_return"
    /\ \E t \in ProcTimes :
          LET full_transcript == Join(response.results, <<" ">>)
          IN  final_result' = [returned |-> TRUE,
                               success |-> TRUE,
                               error |-> NoneVal,
                               transcript |-> full_transcript,
                               word_count |-> WordCount(full_transcript),
                               processing_time |-> t]
    /\ pc' = "speech_done"
    /\ UNCHANGED <<speechFrame, files, partial, response, exc, cleanup_failed>>

\* except Exception of transcribe_long_audio
SpeechExcept ==
    /\ pc = "speech_except"
    /\ \E t \in ProcTimes :
          final_result' = [returned |-> TRUE,
                           success |-> FALSE,
                           error |-> <<"Speech-to-Text error">> \o exc,
                           transcript |-> <<>>,
                           processing_time |-> t]
    /\ pc' = "speech_done"
    /\ UNCHANGED <<speechFrame, files, partial, response, exc, cleanup_failed>>

NextSpeech ==
    \/ convert_to_wav
    \/ SpeechRead
    \/ SpeechRecognize
    \/ SpeechWait
    \/ SpeechProcess
    \/ SpeechCleanup
    \/ SpeechReturn
    \/ SpeechExcept

SpecSpeech == InitSpeech /\ [][NextSpeech]_vars

(* ------------- merge_transcriptions on arbitrary result lists ----------- *)
\* a chunk-results list: n results took the chunk indices 0..n-1 and stand in
\* the list in any order; a failed entry may carry text, a merge must not use it;
\* chunk idx took idx + 1 seconds
Perms(n) == {p \in [1..n -> 1..n] : \A a, b \in 1..n : p[a] = p[b] => a = b}

SuccessEntry(idx, text, t) ==
    [success |-> TRUE,
     error |-> NoneVal,
     transcript |-> text,
     start_time |-> idx * MsPerMinute,
     end_time |-> (idx + 1) * MsPerMinute,
     processing_time |-> t,
     word_count |-> WordCount(text)]

FailureEntry(idx, text, t) ==
    [success |-> FALSE,
     error |-> <<"error", idx + 1>>,
     transcript |-> text,
     start_time |-> idx * MsPerMinute,
     end_time |-> (idx + 1) * MsPerMinute,
     processing_time |-> t]

EntryBodies ==
    {<<TRUE, text>> : text \in TextsUpTo(MaxTextLen)}
        \cup {<<FALSE, text>> : text \in {<<>>, <<"x">>}}

Entry(idx, body) ==
    IF body[1] THEN SuccessEntry(idx, body[2], idx + 1)
    ELSE FailureEntry(idx, body[2], idx + 1)

\* the list of the results body[1..n] of the chunks 0..n-1, in the order p
ResultList(n, body, p) == [j \in 1..n |-> Entry(p[j] - 1, body[p[j]])]

InitMerge ==
    /\ google_key = TRUE
    /\ chunk_duration_minutes = 1
    /\ total_duration_ms = 0
    /\ source_exists = TRUE
    /\ input_is_wav = FALSE
    /\ pc = "merge_in"
    /\ split_chunks = <<>>
    /\ chunks = <<>>
    /\ chunk_start = 0
    /\ chunk_number = 1
    /\ temp_dir = FALSE
    /\ files = {}
    /\ partial = {}
    /\ i = 0
    /\ \E n \in 0..MaxResults :
          \E body \in [1..n -> EntryBodies] :
             \E p \in Perms(n) :
                chunk_results = ResultList(n, body, p)
    /\ audio_file = NoFile
    /\ remote = {}
    /\ response = NoResponse
    /\ exc = NoneVal
    /\ cleanup_j = 1
    /\ cleanup_failed = FALSE
    /\ final_result = NoneRec
    /\ calls = <<>>
    /\ uploads = <<>>
    /\ delays = 0

\* merge_transcriptions(chunk_results), called on its own
MergeOnly ==
    /\ pc = "merge_in"
    /\ final_result' =
          [k \in DOMAIN merge_transcriptions(chunk_results) \cup {"returned"} |->
              IF k = "returned" THEN TRUE ELSE merge_transcriptions(chunk_results)[k]]
    /\ pc' = "merge_out"
    /\ UNCHANGED <<inputVars, splitVars, fsVars, i, chunk_results, jobVars, exc, histVars>>

NextMerge == MergeOnly

SpecMerge == InitMerge /\ [][NextMerge]_vars

(* ------------------------------ properties ----------------------------- *)
SplitFailed == exc \in {<<"decode">>, <<"export">>}

\* split_audio has returned its chunks to transcribe_long_audio
SplitReturned ==
    /\ source_exists
    /\ ~SplitFailed
    /\ pc \notin {"init", "config_error", "start", "split_load", "split_loop",
                  "merge_in", "merge_out"}

\* ceil(a / b) for a >= 0 and b # 0
CeilDiv(a, b) == IF b > 0 THEN (a + b - 1) \div b ELSE 0 - (a \div (0 - b))

Indices(n) == [k \in 1..n |-> k - 1]

Last(s) == s[Len(s)]

\* the text without its line breaks
RECURSIVE NoBreaks(_)
NoBreaks(s) ==
    IF s = <<>> THEN <<>>
    ELSE IF Head(s) = NL THEN NoBreaks(Tail(s)) ELSE <<Head(s)>> \o NoBreaks(Tail(s))

RECURSIVE Concat(_)
Concat(parts) == IF parts = <<>> THEN <<>> ELSE Head(parts) \o Concat(Tail(parts))

Successes(rs) == SelectSeq(rs, LAMBDA r : r.success)
Failures(rs) == SelectSeq(rs, LAMBDA r : ~r.success)
TranscriptsOf(rs) == [k \in 1..Len(rs) |-> rs[k].transcript]

\* the results in ascending chunk order (the start times of a list are distinct)
SortedByStart(rs) ==
    LET n == Len(rs)
        Rank(k) == Cardinality({m \in 1..n : rs[m].start_time < rs[k].start_time}) + 1
    IN  [r \in 1..n |-> rs[CHOOSE k \in 1..n : Rank(k) = r]]

\* parts joined by a double line break, triple line breaks replaced once
Seamed(parts) == Replace(Join(parts, <<NL, NL>>), <<NL, NL, NL>>, <<NL, NL>>)

\* C1: when transcribe_long_audio returns after split_audio returned n chunks,
\* transcribe_chunk was called for each of the n chunks, whatever the earlier
\* outcomes, and the report's chunk_results has n entries, entry i for chunk i.
C1_EveryChunkTranscribed ==
    (pc = "done" /\ SplitReturned) =>
        /\ calls = Indices(Len(chunks))
        /\ "chunk_results" \in DOMAIN final_result
        /\ Len(final_result.chunk_results) = Len(chunks)
        /\ \A k \in 1..Len(chunks) :
              /\ final_result.chunk_results[k].start_time = chunks[k].start
              /\ final_result.chunk_results[k].end_time = chunks[k].end

\* a run of three chunks: upload failure, remote FAILED state, then a success
C1_Witness ==
    /\ pc = "done"
    /\ Len(chunks) = 3
    /\ Len(chunk_results) = 3
    /\ chunk_results[1].error = <<"error", 1, "upload">>
    /\ chunk_results[2].error = <<"processing failed", 2>>
    /\ chunk_results[3].success

\* C2: a list with at least one success and one failure merges to a report with
\* success = true, failed_chunks = the number of failed entries, and a text whose
\* characters are those of the successful transcripts only.
C2_FailureIsolation ==
    (/\ pc = "merge_out"
     /\ Successes(chunk_results) # <<>>
     /\ Failures(chunk_results) # <<>>) =>
        /\ final_result.success
        /\ final_result.failed_chunks = Len(Failures(chunk_results))
        /\ NoBreaks(final_result.transcript)
              = NoBreaks(Concat(TranscriptsOf(Successes(chunk_results))))

\* a success between two failures, one of which carries text
C2_Witness ==
    /\ pc = "merge_out"
    /\ Len(chunk_results) = 3
    /\ ~chunk_results[1].success /\ chunk_results[1].transcript = <<"x">>
    /\ chunk_results[2].success /\ chunk_results[2].transcript = <<"a">>
    /\ ~chunk_results[3].success
    /\ final_result.transcript = <<"a">>

C4_ChunkCount ==
    SplitReturned =>
        IF total_duration_ms > chunk_duration_ms
        THEN /\ chunk_duration_ms # 0
             /\ Len(chunks) = CeilDiv(total_duration_ms, chunk_duration_ms)
        ELSE Len(chunks) = 1

\* 62 minutes in 25-minute chunks: three chunks
C4_Witness ==
    /\ SplitReturned
    /\ total_duration_ms = 62 * MsPerMinute
    /\ chunk_duration_minutes = 25
    /\ Len(chunks) = 3

Contiguous ==
    /\ chunks # <<>> => (chunks[1].start = 0 /\ Last(chunks).end = total_duration_ms)
    /\ \A k \in 1..(Len(chunks) - 1) :
          /\ chunks[k + 1].start = chunks[k].end
          /\ chunks[k].end - chunks[k].start = chunk_duration_ms

C6_RemoteFileReleased ==
    \A k \in 1..Len(chunk_results) : k \notin remote

\* C7: transcribe_chunk never raises: an exception inside it, or the FAILED
\* state, ends in a failure result with the reason appended for that chunk, and
\* only split_audio brings the run to its outer exception handler.
C7_ChunkNeverRaises ==
    [][/\ pc' = "run_except" => pc \in {"split_load", "split_loop"}
       /\ (pc = "chunk_except" \/ (pc = "poll" /\ audio_file.state = "FAILED")) =>
             /\ chunk_results' # chunk_results
             /\ SubSeq(chunk_results', 1, Len(chunk_results)) = chunk_results
             /\ Len(chunk_results') = Len(chunk_results) + 1
             /\ ~Last(chunk_results').success
             /\ Last(chunk_results').error =
                   (IF pc = "chunk_except" THEN <<"error", i + 1>> \o exc
                    ELSE <<"processing failed", i + 1>>)
             /\ pc' \in {"delay", "loop"}]_vars

\* the run went on after an exception of each kind and a FAILED state
C7_Witness ==
    /\ pc = "done"
    /\ Len(chunk_results) = 3
    /\ chunk_results[1].error = <<"error", 1, "delete">>
    /\ chunk_results[2].error = <<"error", 2, "poll">>
    /\ chunk_results[3].error = <<"processing failed", 3>>
    /\ "chunk_results" \in DOMAIN final_result

\* C8 as claimed: the poll loop of a chunk is always left, even when the remote
\* file stays in PROCESSING.
C8_PollLoopEnds ==
    (pc = "poll") ~> (pc \notin {"poll", "get_file"})

\* C9: transcribe_chunk is called once per chunk, in increasing index order;
\* the upload of a chunk starts only when the results of all earlier chunks
\* exist, and the only remote job in flight is the one of the current chunk.
C9_SequentialInOrder ==
    /\ calls = Indices(Len(calls))
    /\ uploads = Indices(Len(uploads))
    /\ Len(uploads) <= Len(calls)
    /\ Len(calls) \in {Len(chunk_results), Len(chunk_results) + 1}
    /\ Len(uploads) \in {Len(chunk_results), Len(chunk_results) + 1}
    /\ audio_file # NoFile => audio_file.name = Len(chunk_results) + 1
    /\ SplitReturned => Len(calls) <= Len(chunks)
    /\ (pc = "done" /\ SplitReturned) => Len(calls) = Len(chunks)

\* three chunks were transcribed, with the two delays between them
C9_Witness ==
    /\ pc = "done"
    /\ calls = <<0, 1, 2>>
    /\ uploads = <<0, 1, 2>>
    /\ delays = 2
    /\ \A k \in 1..3 : chunk_results[k].success

\* C10 as claimed: every report of merge_transcriptions carries the three counts,
\* and they add up to the length of the list.
C10_CountsAlwaysReported ==
    pc = "merge_out" =>
        /\ {"total_chunks", "successful_chunks", "failed_chunks"} \subseteq DOMAIN final_result
        /\ final_result.total_chunks = Len(chunk_results)
        /\ final_result.successful_chunks + final_result.failed_chunks
              = final_result.total_chunks

\* C11: every result transcribe_chunk returned is either a failure with an empty
\* transcript and a non-empty error, or a success whose error is None.
C11_ResultShape ==
    \A k \in 1..Len(chunk_results) :
        IF chunk_results[k].success
        THEN chunk_results[k].error = NoneVal
        ELSE /\ chunk_results[k].transcript = <<>>
             /\ chunk_results[k].error # NoneVal
             /\ chunk_results[k].error # <<>>

\* an empty answer, an exception and a success were returned in one run
C11_Witness ==
    /\ Len(chunk_results) = 3
    /\ chunk_results[1].error = <<"No transcription generated", 1>>
    /\ chunk_results[2].error = <<"error", 2, "generate">>
    /\ chunk_results[3].success /\ chunk_results[3].transcript = <<"a">>

\* C12: the report of a list is a success iff some entry succeeded; a non-empty
\* list of failures gives success = false, an empty text and all the results.
C12_SuccessIffSomeSucceeded ==
    pc = "merge_out" =>
        /\ final_result.success <=> (Successes(chunk_results) # <<>>)
        /\ (chunk_results # <<>> /\ Successes(chunk_results) = <<>>) =>
              /\ ~final_result.success
              /\ final_result.transcript = <<>>
              /\ final_result.chunk_results = chunk_results

\* three failures, one of them carrying text, were merged
C12_Witness ==
    /\ pc = "merge_out"
    /\ Len(chunk_results) = 3
    /\ \A k \in 1..3 : ~chunk_results[k].success
    /\ chunk_results[2].transcript = <<"x">>
    /\ ~final_result.success

\* C13 as claimed: the merged text has no run of more than two line breaks.
C13_NoLongBreakRun ==
    pc = "merge_out" =>
        \A k \in 1..(Len(final_result.transcript) - 2) :
            ~(/\ final_result.transcript[k] = NL
              /\ final_result.transcript[k + 1] = NL
              /\ final_result.transcript[k + 2] = NL)

HasTripleBreak(s) ==
    \E k \in 1..(Len(s) - 2) : s[k] = NL /\ s[k + 1] = NL /\ s[k + 2] = NL

\* the 62-minute source was cut in 25-minute chunks
Split62By25 ==
    /\ SplitReturned
    /\ chunk_duration_minutes = 25
    /\ total_duration_ms = 62 * MsPerMinute

SpansOf62By25 ==
    /\ Len(chunks) = 3
    /\ chunks[1].start = 0 /\ chunks[1].end = 25 * MsPerMinute
    /\ chunks[2].start = 25 * MsPerMinute /\ chunks[2].end = 50 * MsPerMinute
    /\ chunks[3].start = 50 * MsPerMinute /\ chunks[3].end = 62 * MsPerMinute

\* the run returned; the second chunk failed, the first and the third succeeded
SecondOfThreeFailed ==
    /\ pc = "done"
    /\ Len(chunk_results) = 3
    /\ chunk_results[1].success
    /\ ~chunk_results[2].success
    /\ chunk_results[3].success

CountsThreeTwoOne ==
    /\ final_result.total_chunks = 3
    /\ final_result.successful_chunks = 2
    /\ final_result.failed_chunks = 1

\* C14 as claimed: 62 minutes in 25-minute chunks are [0,25), [25,50), [50,62);
\* when only the second chunk fails the counts are 3, 2, 1 and the merged text is
\* the first text, two line breaks, the third text.
C14_EndToEndVerbatim ==
    Split62By25 =>
        /\ SpansOf62By25
        /\ SecondOfThreeFailed =>
              /\ CountsThreeTwoOne
              /\ final_result.transcript =
                    chunk_results[1].transcript \o <<NL, NL>> \o chunk_results[3].transcript

\* C14 amended: the merged text is that concatenation after the one replace pass
\* of three line breaks by two, so it is the concatenation itself when neither
\* text holds three line breaks in a row.
C14_EndToEndAfterReplace ==
    Split62By25 =>
        /\ SpansOf62By25
        /\ SecondOfThreeFailed =>
              LET seam == chunk_results[1].transcript \o <<NL, NL>>
                              \o chunk_results[3].transcript
              IN  /\ CountsThreeTwoOne
                  /\ final_result.transcript = Replace(seam, <<NL, NL, NL>>, <<NL, NL>>)
                  /\ (/\ ~HasTripleBreak(chunk_results[1].transcript)
                      /\ ~HasTripleBreak(chunk_results[3].transcript)) =>
                        final_result.transcript = seam

\* the scenario with plain texts: the merged text is "a", two line breaks, "a"
C14_Witness ==
    /\ Split62By25
    /\ SecondOfThreeFailed
    /\ chunk_results[1].transcript = <<"a">>
    /\ chunk_results[2].error = <<"processing failed", 2>>
    /\ chunk_results[3].transcript = <<"a">>
    /\ final_result.transcript = <<"a", NL, NL, "a">>

\* C15: when a run of several chunks returns and no removal raised, no chunk file
\* and no temporary directory is left; until the result of the last chunk is
\* collected the cleanup has not started and every chunk file is still there.
C15_TempFilesRemoved ==
    (SplitReturned /\ Len(chunks) >= 2) =>
        /\ (pc = "done" /\ ~cleanup_failed) => (files = {} /\ ~temp_dir)
        /\ pc = "cleanup" => Len(chunk_results) = Len(chunks)
        /\ Len(chunk_results) < Len(chunks) =>
              /\ temp_dir
              /\ \A k \in 1..Len(chunks) : chunks[k].path \in files

\* three chunks with a failure among them, everything removed at the return
C15_Witness ==
    /\ pc = "done"
    /\ SplitReturned
    /\ Len(chunks) = 3
    /\ chunk_results[1].success
    /\ chunk_results[2].error = <<"error", 2, "upload">>
    /\ chunk_results[3].error = <<"processing failed", 3>>
    /\ ~cleanup_failed
    /\ files = {}
    /\ ~temp_dir

\* C16 as claimed: a removal that raises leaves the report as it is, and a
\* delete of the uploaded file that raises does not make the chunk a failure.
C16_CleanupErrorsNotSurfaced ==
    /\ (pc = "done" /\ SplitReturned) =>
          /\ final_result.chunk_results = chunk_results
          /\ final_result.success <=> (Successes(chunk_results) # <<>>)
    /\ ~(pc = "chunk_except" /\ exc = <<"delete">>)
    /\ \A k \in 1..Len(chunk_results) :
          chunk_results[k].error # <<"error", k, "delete">>

\* C17: without the key there is no transcriber, without the source file the run
\* returns a failure at once; in both cases nothing is decoded or split, no
\* temporary directory is made and nothing is uploaded.
C17_NoPartialWork ==
    (~google_key \/ ~source_exists) =>
        /\ pc \in {"init", "config_error", "start", "done"}
        /\ ~google_key => (pc \in {"init", "config_error"} /\ final_result = NoneRec)
        /\ pc = "done" =>
              /\ ~final_result.success
              /\ final_result.error = <<"Audio file not found">>
              /\ "chunk_results" \notin DOMAIN final_result
        /\ split_chunks = <<>> /\ chunks = <<>>
        /\ ~temp_dir /\ files = {}
        /\ calls = <<>> /\ uploads = <<>> /\ remote = {}

\* the run on a missing source file has returned its failure
C17_Witness ==
    /\ google_key
    /\ ~source_exists
    /\ pc = "done"
    /\ final_result.returned
    /\ ~final_result.success

\* C18: a source that cannot be decoded, or an export that raises, ends the run
\* with success = false before any chunk is called or uploaded, and the result
\* has no chunk results; a chunk in the list of split_audio always refers to a
\* file that was written completely.
C18_SourceErrorStopsRun ==
    /\ SplitFailed =>
          /\ pc \in {"run_except", "done"}
          /\ chunks = <<>> /\ chunk_results = <<>>
          /\ calls = <<>> /\ uploads = <<>> /\ remote = {}
          /\ pc = "done" =>
                /\ ~final_result.success
                /\ "chunk_results" \notin DOMAIN final_result
    /\ pc = "split_loop" =>
          \A k \in 1..Len(split_chunks) : split_chunks[k].path \in files \ partial
    /\ (SplitReturned /\ pc \notin {"cleanup", "done"}) =>
          \A k \in 1..Len(chunks) :
              chunks[k].path = SourcePath \/ chunks[k].path \in files \ partial

\* the export of the third chunk raised and left a part of its file
C18_Witness ==
    /\ pc = "done"
    /\ exc = <<"export">>
    /\ Len(split_chunks) = 2
    /\ partial = {3}
    /\ ~final_result.success

\* C19: a source no longer than one chunk is returned as the single chunk
\* [0, duration) whose path is the source itself; no temporary directory is
\* made and no file is written.
C19_ShortAudioNotCopied ==
    (SplitReturned /\ total_duration_ms <= chunk_duration_ms) =>
        /\ chunks = <<[path |-> SourcePath, start |-> 0, end |-> total_duration_ms]>>
        /\ split_chunks = <<>>
        /\ ~temp_dir
        /\ files = {} /\ partial = {}

\* a source exactly one chunk long went through the whole run
C19_Witness ==
    /\ pc = "done"
    /\ SplitReturned
    /\ chunk_duration_minutes = 1
    /\ total_duration_ms = MsPerMinute
    /\ Len(chunks) = 1
    /\ chunks[1].path = SourcePath
    /\ chunk_results[1].success

\* C20 as claimed: in a report with totals, total_words is the sum of the word
\* counts of the successful results and total_processing_time is the sum of the
\* processing times of all results, the failed ones included.
C20_TotalsOverAllChunks ==
    (pc = "merge_out" /\ "total_processing_time" \in DOMAIN final_result) =>
        /\ final_result.total_words =
              SeqSum([k \in 1..Len(Successes(chunk_results)) |->
                          Get(Successes(chunk_results)[k], "word_count", 0)])
        /\ final_result.total_processing_time =
              SeqSum([k \in 1..Len(chunk_results) |->
                          Get(chunk_results[k], "processing_time", 0)])

\* C21: a run of n chunks sleeps the pacing delay n - 1 times: the k-th delay
\* stands after the result of chunk k is collected and before chunk k + 1 is
\* called; none follows the last chunk and a run of one chunk has none.
C21_PacingDelays ==
    SplitReturned =>
        /\ pc = "delay" =>
              /\ Len(chunk_results) < Len(chunks)
              /\ Len(calls) = Len(chunk_results)
              /\ delays = Len(chunk_results) - 1
        /\ (pc # "delay" /\ Len(chunk_results) < Len(chunks)) =>
              delays = Len(chunk_results)
        /\ (Len(chunks) >= 1 /\ Len(chunk_results) = Len(chunks)) =>
              delays = Len(chunks) - 1
        /\ Len(chunks) <= 1 => delays = 0

\* three chunks, the last of them a failure: two delays were slept
C21_Witness ==
    /\ pc = "done"
    /\ SplitReturned
    /\ Len(chunks) = 3
    /\ Len(chunk_results) = 3
    /\ chunk_results[3].error = <<"error", 3, "upload">>
    /\ delays = 2

\* C22: a step of the cleanup loop run again, when no chunk file and no
\* temporary directory is left, raises nothing and leaves the file system, the
\* chunk results and the report as they are.
C22_CleanupIdempotent ==
    [][(/\ pc = "cleanup"
        /\ final_result.returned
        /\ files = {}
        /\ ~temp_dir) =>
            /\ files' = {} /\ partial' = partial /\ ~temp_dir'
            /\ chunk_results' = chunk_results
            /\ final_result' = final_result
            /\ exc' = NoneVal
            /\ pc' \in {"cleanup", "done"}]_vars

\* the second pass over three chunk paths has ended: each os.remove found no file
C22_Witness ==
    /\ pc = "cleanup"
    /\ final_result.returned
    /\ final_result.success
    /\ Len(chunks) = 3
    /\ cleanup_j > Len(chunks)
    /\ cleanup_failed
    /\ files = {}
    /\ ~temp_dir

\* C23 as claimed: whenever transcribe_long_audio has returned and no removal
\* raised, no temporary chunk file and no temporary directory of the run is
\* left, the return after a failed export included.
C23_NothingLeftOnAnyReturn ==
    (pc = "done" /\ ~cleanup_failed) => (files = {} /\ ~temp_dir)

\* C24 as claimed: every iteration of the loop of split_audio that stays in the
\* loop moves chunk_start strictly forward, for every chunk duration the
\* constructor accepts, so that the loop reaches the total duration and ends.
C24_SplitLoopAdvances ==
    [][(pc = "split_loop" /\ pc' = "split_loop") =>
          /\ chunk_start' > chunk_start
          /\ chunk_start' <= total_duration_ms]_vars

\* C25: no step of a run removes the source file or writes to its path: the
\* chunk files are written to paths of their own and the cleanup loop removes
\* only paths other than the source, with one chunk and with several.
C25_SourceUntouched ==
    [][/\ source_exists' = source_exists
       /\ SourcePath \notin files'
       /\ \A k \in 1..Len(split_chunks') : split_chunks'[k].path # SourcePath
       /\ pc = "cleanup" => (files \ files') \subseteq {chunks[k].path : k \in 1..Len(chunks)} \ {SourcePath}]_vars

\* the cleanup loop has passed the single chunk that is the source itself
C25_Witness ==
    /\ pc = "done"
    /\ SplitReturned
    /\ source_exists
    /\ chunks = <<[path |-> SourcePath, start |-> 0, end |-> total_duration_ms]>>
    /\ cleanup_j = 2
    /\ ~cleanup_failed
    /\ "chunk_results" \in DOMAIN final_result

\* C26 as claimed: whenever test_small_transcription has returned and no
\* removal raised, temp_test_chunk.mp3 does not exist and the remote file it
\* uploaded has been deleted.
C26_DebugLeavesNothing ==
    (pc = "small_done" /\ ~cleanup_failed) => (temp_file \notin files /\ remote = {})

\* C27 as claimed: whenever transcribe_long_audio of SpeechToTextTranscriber has
\* returned, with a success or with a failure, and no removal raised, the input
\* file is still there and a WAV file that convert_to_wav wrote beside it no
\* longer exists.
C27_ConvertedWavRemoved ==
    (pc = "speech_done" /\ ~cleanup_failed) =>
        /\ final_result.success => Exists(SourcePath)
        /\ wav_path # SourcePath => ~Exists(wav_path)

====
